---- MODULE Spec2Model ----
(***************************************************************************)
(* Model of pkg/serversets/serverset.go: the ServerSet constructor, the    *)
(* namespace path builder (directoryPath, splitPaths) and the two          *)
(* hierarchy routines createFullPath and checkExistsFullPath, run by       *)
(* several callers against one ZooKeeper-style tree store.                 *)
(*                                                                         *)
(* Strings are sequences of one-character strings, so that path.Clean and  *)
(* path.Split are computed character by character as the Go library does.  *)
(***************************************************************************)
EXTENDS Integers, Sequences, FiniteSets, TLC

\* ------------------------------------------------------------------ bounds
\* longest enumerated input string of splitPaths
MaxLen == 5
\* calls of createFullPath / checkExistsFullPath each caller may start
MaxCalls == 2
\* transport errors the store may raise in one behaviour
MaxFaults == 1

\* ----------------------------------------------------------------- strings
Slash == "/"
Dot == "."
Root == <<Slash>>
Empty == <<>>

\* all strings
Str == Seq(STRING)

\* the characters input strings are drawn from
Alphabet == {Slash, Dot, "a", "b"}

RECURSIVE StringsOfLen(_)
StringsOfLen(n) ==
  IF n = 0 THEN {Empty}
  ELSE {Append(s, c) : s \in StringsOfLen(n - 1), c \in Alphabet}

\* strings.Contains(s, "/")
Contains(s, c) == \E i \in 1..Len(s) : s[i] = c

\* s[:n] of Go, n characters kept
Take(s, n) == SubSeq(s, 1, n)

IsPrefix(s, t) == Len(s) <= Len(t) /\ Take(t, Len(s)) = s

\* ------------------------------------------------------------- path.Clean
\* the inner loop of the ".." case: out.w-- and then back to the previous "/"
RECURSIVE backup(_, _, _)
backup(out, w, dotdot) ==
  IF w > dotdot /\ out[w + 1] # Slash THEN backup(out, w - 1, dotdot) ELSE w

\* the default case's copy loop: the index after the element starting at r
RECURSIVE elemEnd(_, _)
elemEnd(p, r) ==
  IF r <= Len(p) /\ p[r] # Slash THEN elemEnd(p, r + 1) ELSE r

\* the main loop of path.Clean, as a function of the loop's state; r is the (1-based) read index, out the
\* output buffer (out.w is Len(out)), dotdot the index where ".." must stop
cleanLoop[p \in Str, r \in Nat, out \in Str, dotdot \in Nat, rooted \in BOOLEAN] ==
  LET n == Len(p) IN
  IF r > n THEN out
  ELSE IF p[r] = Slash THEN cleanLoop[p, r + 1, out, dotdot, rooted]
  ELSE IF p[r] = Dot /\ (r = n \/ p[r + 1] = Slash)
       THEN cleanLoop[p, r + 1, out, dotdot, rooted]
  ELSE IF p[r] = Dot /\ p[r + 1] = Dot /\ (r + 1 = n \/ p[r + 2] = Slash)
       THEN IF Len(out) > dotdot
            THEN cleanLoop[p, r + 2,
                           Take(out, backup(out, Len(out) - 1, dotdot)),
                           dotdot, rooted]
            ELSE IF ~rooted
            THEN LET o1 == IF Len(out) > 0 THEN Append(out, Slash) ELSE out
                     o2 == o1 \o <<Dot, Dot>>
                 IN cleanLoop[p, r + 2, o2, Len(o2), rooted]
            ELSE cleanLoop[p, r + 2, out, dotdot, rooted]
  ELSE LET o1 == IF (rooted /\ Len(out) # 1) \/ (~rooted /\ Len(out) # 0)
                 THEN Append(out, Slash) ELSE out
           e == elemEnd(p, r)
       IN cleanLoop[p, e, o1 \o SubSeq(p, r, e - 1), dotdot, rooted]

\* path.Clean(path)
Clean(p) ==
  IF p = Empty THEN <<Dot>>
  ELSE LET rooted == p[1] = Slash
           out == IF rooted
                  THEN cleanLoop[p, 2, Root, 1, TRUE]
                  ELSE cleanLoop[p, 1, Empty, 0, FALSE]
       IN IF out = Empty THEN <<Dot>> ELSE out

\* ------------------------------------------------------------- path.Split
\* strings.LastIndex(path, "/") as a 1-based index, 0 when there is none
LastSlash(p) ==
  IF Contains(p, Slash)
  THEN CHOOSE i \in 1..Len(p) :
         p[i] = Slash /\ \A j \in (i + 1)..Len(p) : p[j] # Slash
  ELSE 0

\* path.Split(path) = (dir, file): dir keeps its final slash
Split(p) ==
  LET i == LastSlash(p)
  IN [dir |-> Take(p, i), file |-> SubSeq(p, i + 1, Len(p))]

\* ------------------------------------------------------------- splitPaths
\* the longest list of parts the model holds. The Go slice grows without
\* bound; no input on which the loop ends has that many segments, and a
\* loop that goes on past it starts the recorded list again
MaxParts == MaxLen + 1

IsAbs(p) == Len(p) > 0 /\ p[1] = Slash

\* the path of the worked example, /aurora/www/prod/frontend
ExamplePath ==
  <<"/", "a", "u", "r", "o", "r", "a", "/", "w", "w", "w", "/",
    "p", "r", "o", "d", "/", "f", "r", "o", "n", "t", "e", "n", "d">>

Inputs == UNION {StringsOfLen(n) : n \in 0..MaxLen} \cup {ExamplePath}

\* faulty variant of line 81: the path is split without being normalised
splitStep_noClean(fullPath) == Split(fullPath)

\* line 81: path.Split(path.Clean(fullPath))
splitStep(fullPath) == Split(Clean(fullPath))

\* line 82: parts = append(parts, last)
appendPart(parts, last) ==
  IF Len(parts) < MaxParts THEN Append(parts, last) ELSE <<last>>

\* faulty variant of line 90: the separator is left out
joinBase_noSep(base, part) == base \o part

\* line 90: base += "/" + parts[i]
joinBase(base, part) == base \o <<Slash>> \o part

\* lines 80-83 run to completion; defined where the loop terminates
RECURSIVE splitLoop(_, _)
splitLoop(fullPath, parts) ==
  IF fullPath = Root THEN parts
  ELSE LET s == splitStep(fullPath)
       IN splitLoop(s.dir, appendPart(parts, s.file))

\* lines 87-92 run to completion, i counting down from len(parts)
RECURSIVE joinLoop(_, _, _, _)
joinLoop(parts, i, base, result) ==
  IF i < 1 THEN result
  ELSE LET b == joinBase(base, parts[i])
       IN joinLoop(parts, i - 1, b, Append(result, b))

\* faulty variant of splitPaths: the ancestor chain leaf-first
splitPaths_leafFirst(fullPath) ==
  LET parts == splitLoop(fullPath, <<>>)
      r == joinLoop(parts, Len(parts), Empty, <<>>)
  IN [j \in 1..Len(r) |-> r[Len(r) + 1 - j]]

\* splitPaths(fullPath) as a function of its argument
splitPaths(fullPath) ==
  LET parts == splitLoop(fullPath, <<>>)
  IN joinLoop(parts, Len(parts), Empty, <<>>)

\* ------------------------------------------------------ ServerSet, New
\* line 15: BaseDirectory = "/aurora"
BaseDirectory == <<"/", "a", "u", "r", "o", "r", "a">>

\* line 30: DefaultZKTimeout, in seconds
DefaultZKTimeout == 5

\* lines 25-27: BaseDirectory + "/" + role + "/" + environment + "/" + service
BaseZnodePath(role, environment, service) ==
  BaseDirectory \o <<Slash>> \o role \o <<Slash>> \o environment
                \o <<Slash>> \o service

\* faulty variant of New: the test of lines 46-48 is left out
New_noCheck(role, environment, service, zookeepers) ==
  [panicked |-> FALSE,
   ss |-> <<[ZKTimeout |-> DefaultZKTimeout, role |-> role,
             environment |-> environment, service |-> service,
             zkServers |-> zookeepers]>>]

\* lines 45-59: New panics on a service name with a slash and otherwise
\* returns the ServerSet; ss is <<>> when nothing is returned
New(role, environment, service, zookeepers) ==
  IF Contains(service, Slash)
  THEN [panicked |-> TRUE, ss |-> <<>>]
  ELSE [panicked |-> FALSE,
        ss |-> <<[ZKTimeout |-> DefaultZKTimeout, role |-> role,
                  environment |-> environment, service |-> service,
                  zkServers |-> zookeepers]>>]

\* lines 72-74
directoryPath(ss) == BaseZnodePath(ss.role, ss.environment, ss.service)

\* ---------------------------------------------------------- the tree store
Nil == "nil"
ErrNodeExists == "zk: node already exists"
ErrNoNode == "zk: node does not exist"
ErrConnectionClosed == "zk: connection closed"
ErrNoServers == "zk: server list must not be empty"

\* zk.Connect(servers, timeout): the error it returns, Nil on success
zkConnect(servers, timeout, fault) ==
  IF Len(servers) = 0 THEN ErrNoServers ELSE fault

\* the parent of a node path
parentOf(key) == Clean(Split(key).dir)

\* the root always exists
nodeExists(key, tree) == key = Root \/ key \in tree

\* connection.Create(key, nil, 0, acl) on the tree: atomic; fault is the
\* transport error of this request, Nil when there is none
zkCreate(key, tree, fault) ==
  IF fault # Nil
  THEN [kind |-> "create", err |-> fault, exists |-> FALSE, tree |-> tree]
  ELSE IF nodeExists(key, tree)
  THEN [kind |-> "create", err |-> ErrNodeExists, exists |-> TRUE, tree |-> tree]
  ELSE IF ~nodeExists(parentOf(key), tree)
  THEN [kind |-> "create", err |-> ErrNoNode, exists |-> FALSE, tree |-> tree]
  ELSE [kind |-> "create", err |-> Nil, exists |-> TRUE,
        tree |-> tree \cup {key}]

\* connection.Exists(key) on the tree
zkExists(key, tree, fault) ==
  IF fault # Nil
  THEN [kind |-> "exists", err |-> fault, exists |-> FALSE, tree |-> tree]
  ELSE [kind |-> "exists", err |-> Nil, exists |-> nodeExists(key, tree),
        tree |-> tree]

\* ---------------------------------- createFullPath and checkExistsFullPath
\* faulty variant of line 99: the namespace path itself is left out
createPaths_parentsOnly(ss) ==
  LET c == splitPaths(directoryPath(ss)) IN SubSeq(c, 1, Len(c) - 1)

\* line 99: paths := splitPaths(ss.directoryPath())
createPaths(ss) == splitPaths(directoryPath(ss))

\* line 114: paths := splitPaths(ss.directoryPath())
checkPaths(ss) == splitPaths(directoryPath(ss))

\* line 103: the request createFullPath issues for key
createCall(key, tree, fault) == zkCreate(key, tree, fault)

\* faulty variant of line 117: a create where the existence check belongs
checkCall_creates(key, tree, fault) ==
  LET r == zkCreate(key, tree, fault)
  IN [r EXCEPT !.exists = r.err \in {Nil, ErrNodeExists}]

\* line 117: the request checkExistsFullPath issues for key
checkCall(key, tree, fault) == zkExists(key, tree, fault)

\* faulty variant of line 104: node-exists is not exempted
createFails_strict(err) == err # Nil

\* faulty variant of line 104: every error is swallowed
createFails_never(err) == FALSE

\* line 104: err != nil && err != zk.ErrNodeExists
createFails(err) == err # Nil /\ err # ErrNodeExists

\* line 117: !exists || err != nil
checkFails(exists, err) == ~exists \/ err # Nil

\* ------------------------------------------------------------------ state
\* the callers (independent processes) sharing the tree store
Callers == {1, 2}

Roles == {<<"w", "w", "w">>}
Environments == {<<"p", "r", "o", "d">>}
Services == {<<"f", "e">>, <<"b", "e">>, <<"b", "/", "n">>}
ZkLists == {<<>>, <<"zk1:2181">>}

VARIABLES
  \* splitPaths run step by step
  input,     \* the argument splitPaths was called with
  fullPath,  \* the local fullPath
  parts,     \* the local parts
  base,      \* the local base
  result,    \* the local result
  i,         \* the index of the second loop, 1-based
  spc,       \* "idle", "split" (first loop), "join" (second loop), "done"
  \* the tree store and its callers
  nodes,     \* the node paths of the tree store (the root is implicit)
  faults,    \* transport errors raised so far
  lastOp,    \* the last request a caller issued to the coordination service
  pc,        \* per caller: "init", "panicked", "idle", "creating", "checking"
  newArgs,   \* per caller: <<the arguments New was called with>>, or <<>>
  ss,        \* per caller: <<the ServerSet New returned>>, or <<>>
  conn,      \* per caller: whether it holds a connection
  calls,     \* per caller: hierarchy calls started
  op,        \* per caller: the current or last hierarchy call, or "none"
  paths,     \* per caller: the local paths of the current call
  idx,       \* per caller: the position of the range loop in paths, 1-based
  ret,       \* per caller: what the last finished call returned, or "none"
  raised,    \* per caller: the error other than node-exists the store raised
             \*   in the current call, Nil when none
  absent,    \* per caller: the current check was told a path does not exist
  ensured    \* per caller: a createFullPath of this caller returned nil

svars == <<input, fullPath, parts, base, result, i, spc>>
zvars == <<nodes, faults, lastOp, pc, newArgs, ss, conn, calls, op, paths,
           idx, ret, raised, absent, ensured>>
vars == <<svars, zvars>>

NoOp == [caller |-> 0, during |-> "none", kind |-> "none", key |-> Empty,
         err |-> Nil]

\* ------------------------------------------------- splitPaths, step by step
SplitInit ==
  /\ input \in Inputs
  /\ fullPath = input
  /\ parts = <<>>
  /\ base = Empty
  /\ result = <<>>
  /\ i = 0
  /\ spc = "split"

\* no call of splitPaths is being traced
SplitIdle ==
  /\ input = Root
  /\ fullPath = Root
  /\ parts = <<>>
  /\ base = Empty
  /\ result = <<>>
  /\ i = 0
  /\ spc = "idle"

\* one iteration of the loop of lines 80-83
SplitIter ==
  /\ spc = "split"
  /\ fullPath # Root
  /\ LET s == splitStep(fullPath)
     IN /\ fullPath' = s.dir
        /\ parts' = appendPart(parts, s.file)
  /\ UNCHANGED <<input, base, result, i, spc>>
  /\ UNCHANGED zvars

\* the loop of lines 80-83 ends; lines 87-89 set up the second loop
SplitExit ==
  /\ spc = "split"
  /\ fullPath = Root
  /\ spc' = "join"
  /\ i' = Len(parts)
  /\ base' = Empty
  /\ result' = <<>>
  /\ UNCHANGED <<input, fullPath, parts>>
  /\ UNCHANGED zvars

\* one iteration of the loop of lines 89-92
JoinIter ==
  /\ spc = "join"
  /\ i >= 1
  /\ base' = joinBase(base, parts[i])
  /\ result' = Append(result, base')
  /\ i' = i - 1
  /\ UNCHANGED <<input, fullPath, parts, spc>>
  /\ UNCHANGED zvars

\* line 94: return result
SplitReturn ==
  /\ spc = "join"
  /\ i < 1
  /\ spc' = "done"
  /\ UNCHANGED <<input, fullPath, parts, base, result, i>>
  /\ UNCHANGED zvars

SplitNext == SplitIter \/ SplitExit \/ JoinIter \/ SplitReturn

\* --------------------------------------------------- callers and the store
StoreInit ==
  /\ nodes = {}
  /\ faults = 0
  /\ lastOp = NoOp
  /\ pc = [p \in Callers |-> "init"]
  /\ newArgs = [p \in Callers |-> <<>>]
  /\ ss = [p \in Callers |-> <<>>]
  /\ conn = [p \in Callers |-> FALSE]
  /\ calls = [p \in Callers |-> 0]
  /\ op = [p \in Callers |-> "none"]
  /\ paths = [p \in Callers |-> <<>>]
  /\ idx = [p \in Callers |-> 0]
  /\ ret = [p \in Callers |-> "none"]
  /\ raised = [p \in Callers |-> Nil]
  /\ absent = [p \in Callers |-> FALSE]
  /\ ensured = [p \in Callers |-> FALSE]

\* the transport errors a request may meet
Faults == {Nil} \cup (IF faults < MaxFaults THEN {ErrConnectionClosed} ELSE {})

\* a caller constructs its ServerSet (lines 45-59)
CallNew(p) ==
  /\ pc[p] = "init"
  /\ \E role \in Roles, environment \in Environments,
        service \in Services, zookeepers \in ZkLists :
       LET r == New(role, environment, service, zookeepers)
       IN /\ newArgs' = [newArgs EXCEPT ![p] =
                           <<[role |-> role, environment |-> environment,
                              service |-> service, zookeepers |-> zookeepers]>>]
          /\ ss' = [ss EXCEPT ![p] = r.ss]
          /\ pc' = [pc EXCEPT ![p] = IF r.panicked THEN "panicked" ELSE "idle"]
  /\ UNCHANGED <<nodes, faults, lastOp, conn, calls, op, paths, idx, ret,
                 raised, absent, ensured>>
  /\ UNCHANGED svars

\* lines 67-69: zk.Connect(ss.zkServers, ss.ZKTimeout)
connectToZookeeper(p) ==
  /\ pc[p] = "idle"
  /\ ~conn[p]
  /\ \E fault \in Faults :
       LET err == zkConnect(ss[p][1].zkServers, ss[p][1].ZKTimeout, fault)
       IN /\ conn' = [conn EXCEPT ![p] = err = Nil]
          /\ faults' = IF err = ErrConnectionClosed THEN faults + 1 ELSE faults
          /\ lastOp' = [caller |-> p, during |-> "connectToZookeeper",
                        kind |-> "connect", key |-> Empty, err |-> err]
  /\ UNCHANGED <<nodes, pc, newArgs, ss, calls, op, paths, idx, ret, raised,
                 absent, ensured>>
  /\ UNCHANGED svars

\* createFullPath is entered: line 99
createFullPathEnter(p) ==
  /\ pc[p] = "idle"
  /\ conn[p]
  /\ calls[p] < MaxCalls
  /\ pc' = [pc EXCEPT ![p] = "creating"]
  /\ calls' = [calls EXCEPT ![p] = @ + 1]
  /\ op' = [op EXCEPT ![p] = "createFullPath"]
  /\ paths' = [paths EXCEPT ![p] = createPaths(ss[p][1])]
  /\ idx' = [idx EXCEPT ![p] = 1]
  /\ ret' = [ret EXCEPT ![p] = "none"]
  /\ raised' = [raised EXCEPT ![p] = Nil]
  /\ absent' = [absent EXCEPT ![p] = FALSE]
  /\ UNCHANGED <<nodes, faults, lastOp, newArgs, ss, conn, ensured>>
  /\ UNCHANGED svars

\* one iteration of the loop of lines 102-107: the create and its test
createFullPathStep(p) ==
  /\ pc[p] = "creating"
  /\ idx[p] <= Len(paths[p])
  /\ \E fault \in Faults :
       LET key == paths[p][idx[p]]
           r == createCall(key, nodes, fault)
       IN /\ nodes' = r.tree
          /\ faults' = IF fault = Nil THEN faults ELSE faults + 1
          /\ lastOp' = [caller |-> p, during |-> "createFullPath",
                        kind |-> r.kind, key |-> key, err |-> r.err]
          /\ raised' = [raised EXCEPT ![p] =
                          IF r.err \in {Nil, ErrNodeExists} THEN @ ELSE r.err]
          /\ IF createFails(r.err)
             THEN /\ pc' = [pc EXCEPT ![p] = "idle"]
                  /\ ret' = [ret EXCEPT ![p] = r.err]
                  /\ idx' = idx
             ELSE /\ idx' = [idx EXCEPT ![p] = @ + 1]
                  /\ UNCHANGED <<pc, ret>>
  /\ UNCHANGED <<newArgs, ss, conn, calls, op, paths, absent, ensured>>
  /\ UNCHANGED svars

\* line 109: the loop is over, return nil
createFullPathReturn(p) ==
  /\ pc[p] = "creating"
  /\ idx[p] > Len(paths[p])
  /\ pc' = [pc EXCEPT ![p] = "idle"]
  /\ ret' = [ret EXCEPT ![p] = Nil]
  /\ ensured' = [ensured EXCEPT ![p] = TRUE]
  /\ UNCHANGED <<nodes, faults, lastOp, newArgs, ss, conn, calls, op, paths,
                 idx, raised, absent>>
  /\ UNCHANGED svars

\* checkExistsFullPath is entered: line 114
checkExistsFullPathEnter(p) ==
  /\ pc[p] = "idle"
  /\ conn[p]
  /\ calls[p] < MaxCalls
  /\ pc' = [pc EXCEPT ![p] = "checking"]
  /\ calls' = [calls EXCEPT ![p] = @ + 1]
  /\ op' = [op EXCEPT ![p] = "checkExistsFullPath"]
  /\ paths' = [paths EXCEPT ![p] = checkPaths(ss[p][1])]
  /\ idx' = [idx EXCEPT ![p] = 1]
  /\ ret' = [ret EXCEPT ![p] = "none"]
  /\ raised' = [raised EXCEPT ![p] = Nil]
  /\ absent' = [absent EXCEPT ![p] = FALSE]
  /\ UNCHANGED <<nodes, faults, lastOp, newArgs, ss, conn, ensured>>
  /\ UNCHANGED svars

\* one iteration of the loop of lines 116-120: the check and its test;
\* line 118 returns err, whatever made the test true
checkExistsFullPathStep(p) ==
  /\ pc[p] = "checking"
  /\ idx[p] <= Len(paths[p])
  /\ \E fault \in Faults :
       LET key == paths[p][idx[p]]
           r == checkCall(key, nodes, fault)
       IN /\ nodes' = r.tree
          /\ faults' = IF fault = Nil THEN faults ELSE faults + 1
          /\ lastOp' = [caller |-> p, during |-> "checkExistsFullPath",
                        kind |-> r.kind, key |-> key, err |-> r.err]
          /\ raised' = [raised EXCEPT ![p] =
                          IF r.err \in {Nil, ErrNodeExists} THEN @ ELSE r.err]
          /\ absent' = [absent EXCEPT ![p] = @ \/ (r.err = Nil /\ ~r.exists)]
          /\ IF checkFails(r.exists, r.err)
             THEN /\ pc' = [pc EXCEPT ![p] = "idle"]
                  /\ ret' = [ret EXCEPT ![p] = r.err]
                  /\ idx' = idx
             ELSE /\ idx' = [idx EXCEPT ![p] = @ + 1]
                  /\ UNCHANGED <<pc, ret>>
  /\ UNCHANGED <<newArgs, ss, conn, calls, op, paths, ensured>>
  /\ UNCHANGED svars

\* line 122: the loop is over, return nil
checkExistsFullPathReturn(p) ==
  /\ pc[p] = "checking"
  /\ idx[p] > Len(paths[p])
  /\ pc' = [pc EXCEPT ![p] = "idle"]
  /\ ret' = [ret EXCEPT ![p] = Nil]
  /\ UNCHANGED <<nodes, faults, lastOp, newArgs, ss, conn, calls, op, paths,
                 idx, raised, absent, ensured>>
  /\ UNCHANGED svars

Next ==
  \E p \in Callers :
    \/ CallNew(p)
    \/ connectToZookeeper(p)
    \/ createFullPathEnter(p)
    \/ createFullPathStep(p)
    \/ createFullPathReturn(p)
    \/ checkExistsFullPathEnter(p)
    \/ checkExistsFullPathStep(p)
    \/ checkExistsFullPathReturn(p)

\* ---------------------------------------------------------- specifications
\* the callers and the tree store
Init == StoreInit /\ SplitIdle
Spec == Init /\ [][Next]_vars

\* one call of splitPaths on an enumerated input
SplitStart == SplitInit /\ StoreInit
SplitSpec == SplitStart /\ [][SplitNext]_vars

\* the same, the running call never being suspended for ever
SplitFair == SplitStart /\ [][SplitNext]_vars /\ WF_vars(SplitNext)

\* ------------------------------------------------------------------ claims
\* caller p has returned from a call of handler o
Returned(p, o) == pc[p] = "idle" /\ op[p] = o /\ ret[p] # "none"

\* the ancestor chain of caller p's namespace path
chainOf(p) == splitPaths(directoryPath(ss[p][1]))

\* the number of segments of a normalised absolute path other than the root
Segments(P) == Cardinality({j \in 1..Len(P) : P[j] = Slash})

\* C1: no call of createFullPath returns the node-exists error, and a call
\* in which the store raised no other error returns nil, whatever the
\* interleaving with the other callers
C1_NodeExistsIsSuccess ==
  \A p \in Callers :
    Returned(p, "createFullPath") =>
      /\ ret[p] # ErrNodeExists
      /\ raised[p] = Nil => ret[p] = Nil

\* two first calls race on one namespace path: the other caller has created
\* the last node and not yet returned, this one was told node-exists for it
\* and returned nil
C1_Witness ==
  \E p \in Callers, q \in Callers :
    /\ p # q
    /\ calls[p] = 1 /\ calls[q] = 1
    /\ paths[p] = paths[q]
    /\ Returned(p, "createFullPath") /\ ret[p] = Nil
    /\ lastOp.caller = p /\ lastOp.err = ErrNodeExists
    /\ lastOp.key = paths[p][Len(paths[p])]
    /\ pc[q] = "creating" /\ idx[q] > Len(paths[q])

\* C2: checkExistsFullPath returns an error whenever an existence check
\* reported that a path does not exist, and nil only when every path exists
\* and no check raised an error
C2_AbsenceIsFailure ==
  \A p \in Callers :
    Returned(p, "checkExistsFullPath") =>
      /\ absent[p] => ret[p] # Nil
      /\ ret[p] = Nil => (~absent[p] /\ raised[p] = Nil)

\* C3: for an absolute input whose normalised form P has k >= 1 segments,
\* splitPaths returns k entries, root-first, without duplicates, each one
\* segment deeper than and a strict prefix of the next, the last equal to P;
\* the worked example gives its four ancestors
C3_AncestorChain ==
  (spc = "done" /\ IsAbs(input) /\ Clean(input) # Root) =>
    LET P == Clean(input)
        k == Segments(P)
    IN /\ k >= 1
       /\ Len(result) = k
       /\ result[k] = P
       /\ \A j \in 1..k : Segments(result[j]) = j
       /\ \A j \in 1..(k - 1) :
            /\ IsPrefix(result[j], result[j + 1])
            /\ Len(result[j]) < Len(result[j + 1])
            /\ result[j + 1][Len(result[j]) + 1] = Slash
       /\ \A j1 \in 1..k, j2 \in 1..k : j1 # j2 => result[j1] # result[j2]
       /\ input = ExamplePath =>
            result = <<Take(ExamplePath, 7), Take(ExamplePath, 11),
                       Take(ExamplePath, 16), ExamplePath>>

\* an input with a redundant separator has been split into its two ancestors
C3_Witness ==
  /\ spc = "done"
  /\ input = <<"/", "a", "/", "/", "b">>
  /\ result = <<(<<"/", "a">>), (<<"/", "a", "/", "b">>)>>

\* C4: splitPaths never yields the root as an entry, and returns the empty
\* sequence for every absolute input that normalises to the root
C4_RootNeverYielded ==
  spc = "done" =>
    /\ \A j \in 1..Len(result) : result[j] # Root
    /\ (IsAbs(input) /\ Clean(input) = Root) => result = <<>>

\* C5: a caller that passed New a service name with a slash has panicked,
\* holds no ServerSet and no connection, and has issued no request to the
\* coordination service
C5_SlashServicePanics ==
  \A p \in Callers :
    (newArgs[p] # <<>> /\ Contains(newArgs[p][1].service, Slash)) =>
      /\ pc[p] = "panicked"
      /\ ss[p] = <<>>
      /\ ~conn[p]
      /\ calls[p] = 0
      /\ lastOp.caller # p

\* one caller has panicked in New while another one works on the store
C5_Witness ==
  \E p \in Callers, q \in Callers :
    /\ pc[p] = "panicked"
    /\ Contains(newArgs[p][1].service, Slash)
    /\ lastOp.caller = q /\ lastOp.kind = "create"

\* a failed create ends the call of createFullPath at once
C6_Aborted ==
  \A p \in Callers :
    (op[p] = "createFullPath" /\ raised[p] # Nil) =>
      /\ pc[p] = "idle"
      /\ ret[p] = raised[p]
      /\ lastOp.caller = p =>
           (lastOp.err = raised[p] /\ lastOp.key = paths[p][idx[p]])

\* C6: when a create of createFullPath fails with an error other than
\* node-exists the call returns that error at once, the failing create is
\* the last one the call issues, and no step removes a node
C6_AbortKeepsNodes == []C6_Aborted /\ [][nodes \subseteq nodes']_vars

\* a first call failed at its third ancestor; the two it created are there
C6_Witness ==
  \E p \in Callers :
    /\ Returned(p, "createFullPath") /\ ret[p] = ErrConnectionClosed
    /\ idx[p] = 3
    /\ \A q \in Callers : calls[q] = (IF q = p THEN 1 ELSE 0)
    /\ nodes = {paths[p][1], paths[p][2]}

\* a step of caller p inside checkExistsFullPath
CheckStepOf(p) ==
  /\ pc[p] = "checking" \/ pc'[p] = "checking"
  /\ <<pc[p], idx[p]>>' # <<pc[p], idx[p]>>

\* C7: checkExistsFullPath is read-only: the requests it issues are
\* existence checks, and no step of it changes the nodes of the store
C7_CheckIsReadOnly ==
  /\ [](lastOp.during = "checkExistsFullPath" => lastOp.kind = "exists")
  /\ [][\A p \in Callers : CheckStepOf(p) => nodes' = nodes]_vars

\* a check has stopped at an absent path below existing ancestors
C7_Witness ==
  \E p \in Callers :
    /\ Returned(p, "checkExistsFullPath")
    /\ absent[p]
    /\ idx[p] >= 2
    /\ paths[p][1] \in nodes
    /\ paths[p][idx[p]] \notin nodes

\* C8: once a createFullPath of a caller has returned nil, every path of
\* its ancestor chain, the namespace path included, exists, and a later
\* checkExistsFullPath of that caller is told of no absent path and, unless
\* a check raises an error, runs through the whole chain and returns nil
C8_EnsuredHierarchyExists ==
  \A p \in Callers :
    ensured[p] =>
      LET chain == chainOf(p)
      IN /\ chain[Len(chain)] = directoryPath(ss[p][1])
         /\ \A j \in 1..Len(chain) : chain[j] \in nodes
         /\ op[p] = "checkExistsFullPath" =>
              /\ ~absent[p]
              /\ (Returned(p, "checkExistsFullPath") /\ raised[p] = Nil) =>
                   (ret[p] = Nil /\ idx[p] = Len(chain) + 1)

\* a caller whose createFullPath ran after a racing caller's has then
\* checked the whole chain
C8_Witness ==
  \E p \in Callers, q \in Callers :
    /\ p # q
    /\ ensured[p] /\ ensured[q]
    /\ paths[p] = paths[q]
    /\ Returned(p, "checkExistsFullPath") /\ ret[p] = Nil
    /\ idx[p] = Len(paths[p]) + 1
    /\ calls[q] = 1

\* C9: the nodes of the store are prefix-closed in every reachable state,
\* the parent of every node a create was issued for exists, no create is
\* answered with a missing-parent error, and no call returns one
C9_PrefixClosed ==
  /\ \A key \in nodes : nodeExists(parentOf(key), nodes)
  /\ lastOp.kind = "create" => nodeExists(parentOf(lastOp.key), nodes)
  /\ lastOp.err # ErrNoNode
  /\ \A p \in Callers : ret[p] # ErrNoNode /\ raised[p] # ErrNoNode

\* two callers for different services are both inside createFullPath, past
\* the ancestors they share
C9_Witness ==
  \E p \in Callers, q \in Callers :
    /\ pc[p] = "creating" /\ pc[q] = "creating"
    /\ paths[p] # paths[q]
    /\ idx[p] > Len(paths[p]) /\ idx[q] > Len(paths[q])
    /\ paths[p][Len(paths[p])] \in nodes
    /\ paths[q][Len(paths[q])] \in nodes

\* C10 as stated: splitPaths returns on every input
C10_Terminates == <>(spc = "done")

\* C10, amended: splitPaths returns on every input that begins with "/"
C10_AbsoluteTerminates == [](IsAbs(input) => <>(spc = "done"))

\* an absolute input with dot segments has been split and returned
C10_Witness ==
  /\ spc = "done"
  /\ input = <<"/", ".", ".", "/", "a">>
  /\ result = <<(<<"/", "a">>)>>

====
